---- MODULE Spec2Model ----
(***************************************************************************)
(* Model of src/src/index.ts: the x402 payment-retry pump of the scraper   *)
(* MCP server (isX402, pay, getLinks, extractText).                        *)
(*                                                                         *)
(* A JSON value is a tagged record.  An invocation is a chain of           *)
(* suspension points (await fetch / await pay); one action runs the code   *)
(* from one suspension point to the next.  console.error diagnostics       *)
(* leave no state; the one that formats a value of the backend (the        *)
(* template literal of index.ts:24) is modelled for the exception it can   *)
(* raise.                                                                  *)
(***************************************************************************)
EXTENDS Integers, Sequences, FiniteSets, TLC

VARIABLES st, active

vars == <<st, active>>

(***************************************************************************)
(* JavaScript values as they come out of res.json() / the tool arguments.  *)
(***************************************************************************)
Undefined == [t |-> "undefined"]
Null == [t |-> "null"]
Bool(b) == [t |-> "bool", b |-> b]
Num(n) == [t |-> "num", n |-> n]
Str(s) == [t |-> "str", s |-> s]
Arr(a) == [t |-> "arr", a |-> a]
Obj(f) == [t |-> "obj", f |-> f]

\* ToBoolean: undefined, null, false, 0 and "" are falsy; arrays and objects
\* (also empty ones) are truthy.
Truthy(v) ==
    CASE v.t = "undefined" -> FALSE
      [] v.t = "null" -> FALSE
      [] v.t = "bool" -> v.b
      [] v.t = "num" -> v.n # 0
      [] v.t = "str" -> v.s # ""
      [] v.t = "arr" -> TRUE
      [] v.t = "obj" -> TRUE

Nullish(v) == v.t \in {"undefined", "null"}

\* v.k on a value that is not null/undefined (named property k).
GetProp(v, k) ==
    IF v.t = "obj" /\ k \in DOMAIN v.f THEN v.f[k] ELSE Undefined

\* v?.k
GetOpt(v, k) == IF Nullish(v) THEN Undefined ELSE GetProp(v, k)

\* v?.[0]   (the model has no string-valued `accepts`: no "str" case)
FirstOpt(v) ==
    CASE Nullish(v) -> Undefined
      [] v.t = "arr" -> IF Len(v.a) > 0 THEN v.a[1] ELSE Undefined
      [] v.t = "obj" -> GetProp(v, "0")
      [] v.t \in {"bool", "num"} -> Undefined

\* a && b: a when a is falsy, b otherwise.
JsAnd(a, b) == IF Truthy(a) THEN b ELSE a

\* `${v}` (ToString).  An object parsed from JSON that has its own "toString"
\* member has no callable toString, and Object.prototype.valueOf returns the
\* object itself: ToPrimitive raises a TypeError.  An array is joined, which
\* applies ToString to its elements (null and undefined become "").
RECURSIVE Stringifiable(_)
Stringifiable(v) ==
    CASE v.t = "obj" -> "toString" \notin DOMAIN v.f
      [] v.t = "arr" -> \A i \in 1..Len(v.a) : Nullish(v.a[i]) \/ Stringifiable(v.a[i])
      [] OTHER -> TRUE

\* variant of isX402 that tests the version field alone
isX402_VersionOnly(data) == GetOpt(data, "x402Version")

(***************************************************************************)
(* index.ts:17  const isX402 = (data) => data?.x402Version && data?.accepts *)
(* The result is the value of the && expression; callers use its           *)
(* truthiness (if (...), Array.prototype.filter).                          *)
(***************************************************************************)
isX402(data) == JsAnd(GetOpt(data, "x402Version"), GetOpt(data, "accepts"))

\* index.ts:21  const url = x402?.accepts?.[0]?.resource
payUrl(x402) == GetOpt(FirstOpt(GetOpt(x402, "accepts")), "resource")

(***************************************************************************)
(* Strings.  A string value carries a TLA+ string; the string operations   *)
(* of the code (includes, replace, URL parsing) work on its characters.    *)
(* Chars spells out the strings that occur in the model, Text is its       *)
(* inverse.                                                                *)
(***************************************************************************)
KnownStrings ==
    {"https://a.example",
     "https://www.b.example/p",
     "a.example",
     "b.example",
     "www.a.example",
     "a.www.example",
     "https://a.example/x",
     "https://a.example/y",
     "https://www.a.example/x",
     "https://www.b.example/q",
     "https://github.com/x",
     "https://a.example.x.www.com/z",
     "not a url",
     "github.com",
     "linkedin.com",
     "instagram.com",
     "twitter.com",
     "facebook.com",
     "youtube.com",
     "x.com",
     "www.",
     "https://",
     ""}

Chars(s) ==
    CASE s = "https://a.example" -> <<"h", "t", "t", "p", "s", ":", "/", "/", "a", ".", "e", "x", "a", "m", "p", "l", "e">>
      [] s = "https://www.b.example/p" -> <<"h", "t", "t", "p", "s", ":", "/", "/", "w", "w", "w", ".", "b", ".", "e", "x", "a", "m", "p", "l", "e", "/", "p">>
      [] s = "a.example" -> <<"a", ".", "e", "x", "a", "m", "p", "l", "e">>
      [] s = "b.example" -> <<"b", ".", "e", "x", "a", "m", "p", "l", "e">>
      [] s = "www.a.example" -> <<"w", "w", "w", ".", "a", ".", "e", "x", "a", "m", "p", "l", "e">>
      [] s = "a.www.example" -> <<"a", ".", "w", "w", "w", ".", "e", "x", "a", "m", "p", "l", "e">>
      [] s = "https://a.example/x" -> <<"h", "t", "t", "p", "s", ":", "/", "/", "a", ".", "e", "x", "a", "m", "p", "l", "e", "/", "x">>
      [] s = "https://a.example/y" -> <<"h", "t", "t", "p", "s", ":", "/", "/", "a", ".", "e", "x", "a", "m", "p", "l", "e", "/", "y">>
      [] s = "https://www.a.example/x" -> <<"h", "t", "t", "p", "s", ":", "/", "/", "w", "w", "w", ".", "a", ".", "e", "x", "a", "m", "p", "l", "e", "/", "x">>
      [] s = "https://www.b.example/q" -> <<"h", "t", "t", "p", "s", ":", "/", "/", "w", "w", "w", ".", "b", ".", "e", "x", "a", "m", "p", "l", "e", "/", "q">>
      [] s = "https://github.com/x" -> <<"h", "t", "t", "p", "s", ":", "/", "/", "g", "i", "t", "h", "u", "b", ".", "c", "o", "m", "/", "x">>
      [] s = "https://a.example.x.www.com/z" -> <<"h", "t", "t", "p", "s", ":", "/", "/", "a", ".", "e", "x", "a", "m", "p", "l", "e", ".", "x", ".", "w", "w", "w", ".", "c", "o", "m", "/", "z">>
      [] s = "not a url" -> <<"n", "o", "t", " ", "a", " ", "u", "r", "l">>
      [] s = "github.com" -> <<"g", "i", "t", "h", "u", "b", ".", "c", "o", "m">>
      [] s = "linkedin.com" -> <<"l", "i", "n", "k", "e", "d", "i", "n", ".", "c", "o", "m">>
      [] s = "instagram.com" -> <<"i", "n", "s", "t", "a", "g", "r", "a", "m", ".", "c", "o", "m">>
      [] s = "twitter.com" -> <<"t", "w", "i", "t", "t", "e", "r", ".", "c", "o", "m">>
      [] s = "facebook.com" -> <<"f", "a", "c", "e", "b", "o", "o", "k", ".", "c", "o", "m">>
      [] s = "youtube.com" -> <<"y", "o", "u", "t", "u", "b", "e", ".", "c", "o", "m">>
      [] s = "x.com" -> <<"x", ".", "c", "o", "m">>
      [] s = "www." -> <<"w", "w", "w", ".">>
      [] s = "https://" -> <<"h", "t", "t", "p", "s", ":", "/", "/">>
      [] s = "" -> <<>>

Text(cs) == CHOOSE s \in KnownStrings : Chars(s) = cs

\* first index at which sub occurs in s, 0 when it does not
IndexOf(s, sub) ==
    LET hits == {i \in 1..(Len(s) - Len(sub) + 1) : SubSeq(s, i, i + Len(sub) - 1) = sub}
    IN  IF hits = {} THEN 0 ELSE CHOOSE i \in hits : \A j \in hits : i <= j

\* String.prototype.includes
Includes(s, sub) == IndexOf(s, sub) # 0

StartsWith(s, pre) == Len(s) >= Len(pre) /\ SubSeq(s, 1, Len(pre)) = pre

\* index.ts:99,100,155  s.replace("www.", ""): a string pattern replaces its
\* first occurrence, wherever it is
ReplaceWww(s) ==
    LET i == IndexOf(s, Chars("www."))
    IN  IF i = 0 THEN s ELSE SubSeq(s, 1, i - 1) \o SubSeq(s, i + 4, Len(s))

\* index.ts:99,155  new URL(link).hostname for the links of the model (lower
\* case, no port, no userinfo): the characters between "https://" and the
\* next "/"; <<>> stands for the TypeError of an invalid URL (no scheme, or
\* no host).
Hostname(link) ==
    IF ~StartsWith(link, Chars("https://"))
    THEN <<>>
    ELSE LET rest == SubSeq(link, 9, Len(link))
             slash == IndexOf(rest, <<"/">>)
         IN  IF slash = 0 THEN rest ELSE SubSeq(rest, 1, slash - 1)

\* index.ts:96
socials ==
    <<Chars("github.com"), Chars("linkedin.com"), Chars("instagram.com"),
      Chars("twitter.com"), Chars("facebook.com"), Chars("youtube.com"), Chars("x.com")>>

\* index.ts:97-102  the filter callback: a link that is no string is
\* converted to one that does not parse (null, numbers, plain objects), and
\* a throw inside the try makes the callback return false
keepLink(link, domain) ==
    /\ link.t = "str" /\ domain.t = "str"
    /\ Hostname(Chars(link.s)) # <<>>
    /\ LET host == ReplaceWww(Hostname(Chars(link.s)))
       IN  /\ ~\E i \in 1..Len(socials) : Includes(host, socials[i])
           /\ Includes(host, ReplaceWww(Chars(domain.s)))

\* index.ts:95-103  filterUrls(links, domain) for an array links
filterUrls(links, domain) ==
    Arr(SelectSeq(links.a, LAMBDA link : keepLink(link, domain)))

(***************************************************************************)
(* Bounds and the values the backend may answer with.                      *)
(***************************************************************************)
\* Longest `results` array an extraction response carries.
MaxItems == 2

Procs == {"p1", "p2"}

Resources == {"r1", "r2"}

Option(r) == Obj([resource |-> r])
Challenge(accepts) == Obj([x402Version |-> Num(1), accepts |-> accepts])

\* {x402Version: 1, accepts: [{resource: r}]}
Ch(r) == Challenge(Arr(<<Option(Str(r))>>))
\* challenges pay() cannot charge: accepts: 5, [], [null], [{}], [{resource: ""}]
ChNumAccepts == Challenge(Num(5))
ChEmptyAccepts == Challenge(Arr(<<>>))
ChNullOption == Challenge(Arr(<<Null>>))
ChNoResource == Challenge(Arr(<<Obj(<<>>)>>))
ChEmptyResource == Challenge(Arr(<<Option(Str(""))>>))
\* a challenge whose resource is no string: {resource: {toString: 1}}
ChBadResource == Challenge(Arr(<<Option(Obj([toString |-> Num(1)]))>>))
\* a challenge that also carries a results field
ChWithResults ==
    Obj([x402Version |-> Num(1), accepts |-> Arr(<<Option(Str("r1"))>>),
         results |-> Arr(<<Ch("r2")>>)])

TopChallenges ==
    {Ch(r) : r \in Resources}
        \cup {ChNumAccepts, ChEmptyAccepts, ChNullOption, ChNoResource, ChEmptyResource,
              ChBadResource, ChWithResults}

\* near misses: one of the two fields missing or falsy
NearChallenges ==
    { Obj([x402Version |-> Num(1)]),
      Obj([accepts |-> Arr(<<Option(Str("r1"))>>)]),
      Obj([x402Version |-> Num(0), accepts |-> Arr(<<Option(Str("r1"))>>)]),
      Obj([x402Version |-> Num(1), accepts |-> Null]) }

Scalars == {Null, Num(5), Str("oops"), Bool(TRUE), Arr(<<>>), Obj(<<>>)}

LinkBodies ==
    { Obj([links |-> Arr(<<>>)]),
      Obj([links |-> Arr(<<Str("https://a.example/x")>>)]) }

TextItem == Obj([url |-> Str("https://a.example/x"), text |-> Str("t")])

Items == {TextItem, Ch("r1"), Ch("r2"), ChNoResource, ChBadResource, Null}

SeqsUpTo(S, n) == UNION {[1..k -> S] : k \in 0..n}

ExtractBodies ==
    {Obj([results |-> Arr(a)]) : a \in SeqsUpTo(Items, MaxItems)}
        \cup {Obj([results |-> Num(5)]), Obj([results |-> Str("none")])}

\* what res.json() of GET /links may yield
LinkResponses == TopChallenges \cup NearChallenges \cup Scalars \cup LinkBodies
\* what res.json() of POST /extract-text may yield
ExtractResponses == TopChallenges \cup NearChallenges \cup Scalars \cup ExtractBodies

\* how the POST /do-payment fetch ends: 2xx, another status, or a rejection
PayOutcomes == {"ok", "notok", "fail"}

Urls == {Str("https://a.example"), Str("https://www.b.example/p")}
UrlLists ==
    { Arr(<<Str("https://a.example/x")>>),
      Arr(<<Str("https://a.example/x"), Str("https://a.example/y")>>) }
Domains == {Str("a.example")}

(***************************************************************************)
(* One invocation: the frame of the running getLinks / extractText call    *)
(* and the history of what it did (requests, responses, pay calls); for a  *)
(* tool invocation also the handler's locals and the content it returns.   *)
(***************************************************************************)
Ev(e, k, v) == [e |-> e, k |-> k, v |-> v]

Idle ==
    [pc |-> "idle", fn |-> "none", url |-> Undefined, urls |-> Undefined,
     domain |-> Undefined, retry |-> FALSE, retry0 |-> FALSE, data |-> Undefined,
     ctx |-> "none", queue |-> <<>>, payRes |-> FALSE, result |-> Undefined,
     hist |-> <<>>,
     tool |-> "none", args |-> Undefined, links |-> Undefined,
     filtered |-> Undefined, out |-> Undefined]

Log(s, ev) == [s EXCEPT !.hist = Append(@, ev)]
Return(s, v) == [s EXCEPT !.pc = "returned", !.result = v]
Throw(s) == [s EXCEPT !.pc = "threw"]

\* variant of pay without the `if (!url) return false` guard of line 22
pay_NoGuard(s, x402, ctx) ==
    LET url == payUrl(x402)
        c == [Log(s, Ev("call", "pay", x402)) EXCEPT !.ctx = ctx]
    IN  IF ~Stringifiable(url)
        THEN Throw(c)
        ELSE [Log(c, Ev("req", "pay", Obj([url |-> url]))) EXCEPT !.pc = "pay_fetch"]

(***************************************************************************)
(* index.ts:20-30  pay(x402) up to its first suspension: no resource ->    *)
(* the promise resolves to false with no request; otherwise the log line   *)
(* of line 24 formats url (outside the try: a TypeError rejects the        *)
(* promise, and the awaiting caller fails with it) and POST /do-payment    *)
(* {url} is issued.  ctx remembers which await resumes.                    *)
(***************************************************************************)
pay(s, x402, ctx) ==
    LET url == payUrl(x402)
        c == [Log(s, Ev("call", "pay", x402)) EXCEPT !.ctx = ctx]
    IN  IF ~Truthy(url)
        THEN [Log(c, Ev("ret", "pay", Bool(FALSE))) EXCEPT
                 !.pc = "pay_ret", !.payRes = FALSE]
        ELSE IF ~Stringifiable(url)
        THEN Throw(c)
        ELSE [Log(c, Ev("req", "pay", Obj([url |-> url]))) EXCEPT !.pc = "pay_fetch"]

\* index.ts:31-36  the payment fetch settles: res.ok, or false from the catch
payResult(outcome) == IF outcome = "ok" THEN TRUE ELSE FALSE

\* variant in which the promise of pay is never settled
paySettled_NeverResolves(s, outcome) == [s EXCEPT !.pc = "pay_hung"]

paySettled(s, outcome) ==
    LET r == IF outcome = "fail"
             THEN Log(s, Ev("fail", "pay", Undefined))
             ELSE Log(s, Ev("resp", "pay", Bool(outcome = "ok")))
    IN  [Log(r, Ev("ret", "pay", Bool(payResult(outcome)))) EXCEPT
            !.pc = "pay_ret", !.payRes = payResult(outcome)]

(***************************************************************************)
(* index.ts:40-44  getLinks(url, retry): GET /links?url=...                *)
(***************************************************************************)
getLinks(s, url, retry) ==
    [Log(s, Ev("req", "links", url)) EXCEPT
        !.pc = "links_fetch", !.url = url, !.retry = retry]

\* variant of getLinksBody that takes any body with accepts for a challenge
getLinksBody_AcceptsOnly(s, data) ==
    LET d == [Log(s, Ev("resp", "links", data)) EXCEPT !.data = data]
    IN  IF Truthy(GetOpt(data, "accepts")) /\ s.retry
        THEN pay(d, data, "links")
        ELSE Return(d, data)

\* index.ts:45-53  the body arrives: x402 and retry -> pay, else return data
getLinksBody(s, data) ==
    LET d == [Log(s, Ev("resp", "links", data)) EXCEPT !.data = data]
    IN  IF Truthy(isX402(data)) /\ s.retry
        THEN pay(d, data, "links")
        ELSE Return(d, data)

\* variants of getLinksAfterPay with a plausible slip each
\* - the retry keeps retry = true
getLinksAfterPay_RetryAgain(s) ==
    IF s.payRes THEN getLinks(s, s.url, TRUE) ELSE Return(s, s.data)
\* - the paid request is never replayed
getLinksAfterPay_NoReplay(s) == Return(s, s.data)
\* - the outcome of the payment is ignored
getLinksAfterPay_IgnoreOutcome(s) == getLinks(s, s.url, FALSE)

\* index.ts:49-53  after await pay(data): retry once without retry, or data
getLinksAfterPay(s) ==
    IF s.payRes THEN getLinks(s, s.url, FALSE) ELSE Return(s, s.data)

(***************************************************************************)
(* index.ts:57-63  extractText(urls, domain, retry): POST /extract-text    *)
(***************************************************************************)
extractText(s, urls, domain, retry) ==
    [Log(s, Ev("req", "extract", Obj([urls |-> urls, domain |-> domain]))) EXCEPT
        !.pc = "extract_fetch", !.urls = urls, !.domain = domain, !.retry = retry]

\* index.ts:77  data.results.filter(isX402)
x402Results(results) == SelectSeq(results, LAMBDA item : Truthy(isX402(item)))

\* index.ts:64-91  the body arrives.  data.results on null and .filter on a
\* truthy non-array raise a TypeError.
extractTextBody(s, data) ==
    LET d == [Log(s, Ev("resp", "extract", data)) EXCEPT !.data = data]
    IN  IF Truthy(isX402(data))
        THEN IF s.retry THEN pay(d, data, "top") ELSE Return(d, data)
        ELSE IF Nullish(data)
        THEN Throw(d)
        ELSE LET results == GetProp(data, "results")
             IN  IF Truthy(results) /\ s.retry
                 THEN IF results.t # "arr"
                      THEN Throw(d)
                      ELSE LET found == x402Results(results.a)
                           IN  IF Len(found) > 0
                               THEN pay([d EXCEPT !.queue = found], Head(found), "item")
                               ELSE Return(d, data)
                 ELSE Return(d, data)

\* variant of extractTopAfterPay: the `return data` of line 72 is missing, so
\* a failed top-level payment falls through to the per-item scan
extractTopAfterPay_FallThrough(s) ==
    IF s.payRes
    THEN extractText(s, s.urls, s.domain, FALSE)
    ELSE LET results == GetProp(s.data, "results")
         IN  IF Truthy(results) /\ s.retry
             THEN IF results.t # "arr"
                  THEN Throw(s)
                  ELSE LET found == x402Results(results.a)
                       IN  IF Len(found) > 0
                           THEN pay([s EXCEPT !.queue = found], Head(found), "item")
                           ELSE Return(s, s.data)
             ELSE Return(s, s.data)

\* index.ts:69-72  after await pay(data) on a top-level challenge
extractTopAfterPay(s) ==
    IF s.payRes THEN extractText(s, s.urls, s.domain, FALSE) ELSE Return(s, s.data)

\* variant of extractItemAfterPay whose retry asks again for as many urls
\* only as items were challenged
extractItemAfterPay_ReplayChallenged(s) ==
    LET rest == Tail(s.queue)
        n == [s EXCEPT !.queue = rest]
        k == Len(x402Results(s.data.f.results.a))
    IN  IF rest # <<>>
        THEN pay(n, Head(rest), "item")
        ELSE extractText(n, Arr(SubSeq(s.urls.a, 1, k)), s.domain, FALSE)

\* index.ts:82-87  after await pay(x402) in the loop: next item, or the retry
extractItemAfterPay(s) ==
    LET rest == Tail(s.queue)
        n == [s EXCEPT !.queue = rest]
    IN  IF rest # <<>>
        THEN pay(n, Head(rest), "item")
        ELSE extractText(n, s.urls, s.domain, FALSE)

(***************************************************************************)
(* Actions: one per suspension point of an invocation p.                   *)
(***************************************************************************)
\* variant in which the retry allowance is one flag of the module, shared by
\* all invocations, instead of a parameter of each call
Set_SharedRetry(p, s) ==
    /\ st' = [q \in Procs |-> IF q = p THEN s
                              ELSE IF st[q].pc = "idle" THEN st[q]
                              ELSE [st[q] EXCEPT !.retry = s.retry]]
    /\ UNCHANGED active

\* index.ts:138-139  a step of invocation p changes p's own locals only: the
\* module keeps no mutable state
Set(p, s) == st' = [st EXCEPT ![p] = s] /\ UNCHANGED active

CallGetLinks(p) ==
    /\ p \in active /\ st[p].pc = "idle"
    /\ \E url \in Urls, retry \in BOOLEAN :
          Set(p, getLinks([st[p] EXCEPT !.fn = "getLinks", !.retry0 = retry],
                          url, retry))

CallExtractText(p) ==
    /\ p \in active /\ st[p].pc = "idle"
    /\ \E urls \in UrlLists, domain \in Domains, retry \in BOOLEAN :
          Set(p, extractText([st[p] EXCEPT !.fn = "extractText", !.retry0 = retry],
                             urls, domain, retry))

LinksResponse(p) ==
    /\ st[p].pc = "links_fetch"
    /\ \E data \in LinkResponses : Set(p, getLinksBody(st[p], data))

\* variant in which the rejection is caught and undefined is returned
fetchFailed_Swallowed(s, k) == Return(Log(s, Ev("fail", k, Undefined)), Undefined)

\* index.ts:42-45, 59-64  `await fetch` or `await res.json()` rejects inside
\* getLinks / extractText, which have no try: the call rejects
fetchFailed(s, k) == Throw(Log(s, Ev("fail", k, Undefined)))

\* index.ts:42-45  fetch rejects or res.json() fails to parse: not caught
LinksFails(p) ==
    /\ st[p].pc = "links_fetch"
    /\ Set(p, fetchFailed(st[p], "links"))

ExtractResponse(p) ==
    /\ st[p].pc = "extract_fetch"
    /\ \E data \in ExtractResponses : Set(p, extractTextBody(st[p], data))

\* index.ts:59-64  fetch rejects or res.json() fails to parse: not caught
ExtractFails(p) ==
    /\ st[p].pc = "extract_fetch"
    /\ Set(p, fetchFailed(st[p], "extract"))

PaySettles(p) ==
    /\ st[p].pc = "pay_fetch"
    /\ \E outcome \in PayOutcomes : Set(p, paySettled(st[p], outcome))

PayReturnsToLinks(p) ==
    /\ st[p].pc = "pay_ret" /\ st[p].ctx = "links"
    /\ Set(p, getLinksAfterPay(st[p]))

PayReturnsToExtractTop(p) ==
    /\ st[p].pc = "pay_ret" /\ st[p].ctx = "top"
    /\ Set(p, extractTopAfterPay(st[p]))

PayReturnsToExtractItem(p) ==
    /\ st[p].pc = "pay_ret" /\ st[p].ctx = "item"
    /\ Set(p, extractItemAfterPay(st[p]))

Init ==
    /\ st = [p \in Procs |-> Idle]
    /\ active = {"p1"}

Next ==
    \E p \in Procs :
        \/ CallGetLinks(p)
        \/ CallExtractText(p)
        \/ LinksResponse(p)
        \/ LinksFails(p)
        \/ ExtractResponse(p)
        \/ ExtractFails(p)
        \/ PaySettles(p)
        \/ PayReturnsToLinks(p)
        \/ PayReturnsToExtractTop(p)
        \/ PayReturnsToExtractItem(p)

Spec == Init /\ [][Next]_vars

(***************************************************************************)
(* index.ts:138-178  the CallToolRequestSchema handler.  Every tool calls  *)
(* getLinks / extractText with the default retry = true.                   *)
(***************************************************************************)
\* Longest links array of a /links body, and longest urls argument.
MaxLinks == 2

LinkStrings ==
    {"https://a.example/x", "https://www.a.example/x", "https://github.com/x",
     "https://a.example.x.www.com/z", "not a url"}
LinkItems == {Str(l) : l \in LinkStrings} \cup {Null}

ToolLinkBodies ==
    {Obj([links |-> Arr(a)]) : a \in SeqsUpTo(LinkItems, MaxLinks)}
        \cup {Obj([links |-> Num(5)]), Obj(<<>>)}
\* a challenge that also carries a links field
ChWithLinks ==
    Obj([x402Version |-> Num(1), accepts |-> Arr(<<Option(Str("r1"))>>),
         links |-> Arr(<<Str("https://a.example/x")>>)])
ToolLinkResponses ==
    {Ch("r1"), ChNoResource, ChWithLinks, Null, Num(5)} \cup ToolLinkBodies
ToolExtractResponses ==
    { Ch("r1"), Null,
      Obj([results |-> Arr(<<TextItem>>)]),
      Obj([results |-> Arr(<<TextItem, Ch("r2")>>)]),
      Obj([results |-> Arr(<<Ch("r1"), Ch("r2")>>)]) }

\* the url argument: a URL and a string that is none
ToolUrls == {Str("https://www.a.example/x"), Str("a.example")}
ToolUrlLists == {Arr(a) : a \in SeqsUpTo({Str(l) : l \in LinkStrings}, MaxLinks)}
ToolDomains == {Str("a.example"), Str("www.a.example"), Str("a.www.example")}

\* JSON.stringify(v, null, 2) of a handler's result: a member whose value is
\* undefined is left out
DropUndefined(f) == [k \in {m \in DOMAIN f : f[m] # Undefined} |-> f[k]]
Stringify(v) == IF v.t = "obj" THEN Obj(DropUndefined(v.f)) ELSE v

\* { content: [{ type: "text", text }] }: text is a JSON text or a plain one
Content(kind, v) == [t |-> "content", kind |-> kind, v |-> v]
JsonText(v) == Content("json", Stringify(v))
Done(s, out) == [s EXCEPT !.pc = "done", !.out = out]

\* index.ts:141-142  get_links
toolGetLinks(s, url) ==
    getLinks([s EXCEPT !.tool = "get_links", !.args = Obj([url |-> url]),
                       !.fn = "getLinks", !.retry0 = TRUE],
             url, TRUE)

\* index.ts:143, 150  the awaited call has returned: its result is the content
toolResult(s) == Done(s, JsonText(s.result))

\* variant of the handler that passes args.urls on as they came
toolExtractText_Unfiltered(s, urls, domain) ==
    LET f == [s EXCEPT !.tool = "extract_text", !.filtered = urls,
                       !.args = Obj([urls |-> urls, domain |-> domain])]
    IN  IF Len(urls.a) = 0
        THEN Done(f, Content("plain", Str("No URLs matched domain filter")))
        ELSE extractText([f EXCEPT !.fn = "extractText", !.retry0 = TRUE],
                         urls, domain, TRUE)

\* index.ts:146-149  extract_text
toolExtractText(s, urls, domain) ==
    LET filtered == filterUrls(urls, domain)
        f == [s EXCEPT !.tool = "extract_text", !.filtered = filtered,
                       !.args = Obj([urls |-> urls, domain |-> domain])]
    IN  IF Len(filtered.a) = 0
        THEN Done(f, Content("plain", Str("No URLs matched domain filter")))
        ELSE extractText([f EXCEPT !.fn = "extractText", !.retry0 = TRUE],
                         filtered, domain, TRUE)

\* index.ts:153-158  scrape_website: new URL(url) throws on an invalid url
toolScrapeWebsite(s, url) ==
    LET host == Hostname(Chars(url.s))
        f == [s EXCEPT !.tool = "scrape_website", !.args = Obj([url |-> url])]
    IN  IF host = <<>>
        THEN Throw(f)
        ELSE getLinks([f EXCEPT !.fn = "getLinks", !.retry0 = TRUE,
                                !.domain = Str(Text(ReplaceWww(host)))],
                      url, TRUE)

\* variant of the handler without the isX402(links) check of lines 159-161
scrapeAfterLinks_NoChallengeCheck(s) ==
    LET links == s.result
        f == [s EXCEPT !.links = links]
        l == GetOpt(links, "links")
        arg == IF Truthy(l) /\ l.t = "arr" THEN l ELSE Arr(<<>>)
        filtered == filterUrls(arg, s.domain)
        g == [f EXCEPT !.filtered = filtered]
    IN  IF Len(filtered.a) = 0
        THEN Done(g, JsonText(Obj([links |-> l, filtered |-> Arr(<<>>),
                                   message |-> Str("No internal links found")])))
        ELSE extractText([g EXCEPT !.fn = "extractText"], filtered, s.domain, TRUE)

\* index.ts:158-170  getLinks has returned.  links.links on null and .filter
\* on a truthy non-array raise a TypeError.
scrapeAfterLinks(s) ==
    LET links == s.result
        f == [s EXCEPT !.links = links]
    IN  IF Truthy(isX402(links))
        THEN Done(f, JsonText(Obj([error |-> Str("Payment failed for links"),
                                   x402 |-> links])))
        ELSE IF Nullish(links)
        THEN Throw(f)
        ELSE LET l == GetProp(links, "links")
                 arg == IF Truthy(l) THEN l ELSE Arr(<<>>)
             IN  IF arg.t # "arr"
                 THEN Throw(f)
                 ELSE LET filtered == filterUrls(arg, s.domain)
                          g == [f EXCEPT !.filtered = filtered]
                      IN  IF Len(filtered.a) = 0
                          THEN Done(g, JsonText(Obj([links |-> l,
                                                     filtered |-> Arr(<<>>),
                                                     message |-> Str("No internal links found")])))
                          ELSE extractText([g EXCEPT !.fn = "extractText"],
                                           filtered, s.domain, TRUE)

\* variant of the handler that looks into the extraction outcome
scrapeAfterExtract_InspectsOutcome(s) ==
    IF Truthy(isX402(s.result))
    THEN Done(s, JsonText(Obj([error |-> Str("Payment failed for links"),
                               x402 |-> s.result])))
    ELSE Done(s, JsonText(Obj([links |-> s.links, filtered |-> s.filtered,
                               extracted |-> s.result])))

\* index.ts:170-174  extractText has returned
scrapeAfterExtract(s) ==
    Done(s, JsonText(Obj([links |-> s.links, filtered |-> s.filtered,
                          extracted |-> s.result])))

CallGetLinksTool(p) ==
    /\ p \in active /\ st[p].pc = "idle"
    /\ \E url \in ToolUrls : Set(p, toolGetLinks(st[p], url))

CallExtractTextTool(p) ==
    /\ p \in active /\ st[p].pc = "idle"
    /\ \E urls \in ToolUrlLists, domain \in ToolDomains :
          Set(p, toolExtractText(st[p], urls, domain))

CallScrapeWebsite(p) ==
    /\ p \in active /\ st[p].pc = "idle"
    /\ \E url \in ToolUrls : Set(p, toolScrapeWebsite(st[p], url))

ToolLinksResponse(p) ==
    /\ st[p].pc = "links_fetch"
    /\ \E data \in ToolLinkResponses : Set(p, getLinksBody(st[p], data))

ToolExtractResponse(p) ==
    /\ st[p].pc = "extract_fetch"
    /\ \E data \in ToolExtractResponses : Set(p, extractTextBody(st[p], data))

GetLinksToolReturns(p) ==
    /\ st[p].pc = "returned" /\ st[p].tool = "get_links"
    /\ Set(p, toolResult(st[p]))

ExtractTextToolReturns(p) ==
    /\ st[p].pc = "returned" /\ st[p].tool = "extract_text"
    /\ Set(p, toolResult(st[p]))

ScrapeAfterLinks(p) ==
    /\ st[p].pc = "returned" /\ st[p].tool = "scrape_website" /\ st[p].fn = "getLinks"
    /\ Set(p, scrapeAfterLinks(st[p]))

ScrapeAfterExtract(p) ==
    /\ st[p].pc = "returned" /\ st[p].tool = "scrape_website" /\ st[p].fn = "extractText"
    /\ Set(p, scrapeAfterExtract(st[p]))

NextTools ==
    \E p \in Procs :
        \/ CallGetLinksTool(p)
        \/ CallExtractTextTool(p)
        \/ CallScrapeWebsite(p)
        \/ ToolLinksResponse(p)
        \/ LinksFails(p)
        \/ ToolExtractResponse(p)
        \/ ExtractFails(p)
        \/ PaySettles(p)
        \/ PayReturnsToLinks(p)
        \/ PayReturnsToExtractTop(p)
        \/ PayReturnsToExtractItem(p)
        \/ GetLinksToolReturns(p)
        \/ ExtractTextToolReturns(p)
        \/ ScrapeAfterLinks(p)
        \/ ScrapeAfterExtract(p)

\* one tool invocation at a time
SpecTools == Init /\ [][NextTools]_vars

\* What an invocation that was started does next.  Every fetch it awaits
\* settles (a response or a rejection), and the event loop runs the
\* continuation of every settled await.
Progress(p) ==
    \/ ToolLinksResponse(p)
    \/ LinksFails(p)
    \/ ToolExtractResponse(p)
    \/ ExtractFails(p)
    \/ PaySettles(p)
    \/ PayReturnsToLinks(p)
    \/ PayReturnsToExtractTop(p)
    \/ PayReturnsToExtractItem(p)
    \/ GetLinksToolReturns(p)
    \/ ExtractTextToolReturns(p)
    \/ ScrapeAfterLinks(p)
    \/ ScrapeAfterExtract(p)

SpecLive == SpecTools /\ \A p \in Procs : WF_vars(Progress(p))

(***************************************************************************)
(* Concurrent invocations: the dispatcher starts a second handler while    *)
(* the first one is suspended in a fetch (index.ts:138).  The backend's    *)
(* answers here are a challenge, a body without one and a body with one    *)
(* challenged item.                                                        *)
(***************************************************************************)
ConcLinkResponses == {Ch("r1"), Obj([links |-> Arr(<<>>)])}
ConcExtractResponses ==
    {Ch("r1"), Obj([results |-> Arr(<<Ch("r2")>>)]), Obj([results |-> Arr(<<TextItem>>)])}

ConcLinksResponse(p) ==
    /\ st[p].pc = "links_fetch"
    /\ \E data \in ConcLinkResponses : Set(p, getLinksBody(st[p], data))

ConcExtractResponse(p) ==
    /\ st[p].pc = "extract_fetch"
    /\ \E data \in ConcExtractResponses : Set(p, extractTextBody(st[p], data))

InitConc ==
    /\ st = [p \in Procs |-> Idle]
    /\ active = Procs

NextConc ==
    \E p \in Procs :
        \/ CallGetLinks(p)
        \/ CallExtractText(p)
        \/ ConcLinksResponse(p)
        \/ LinksFails(p)
        \/ ConcExtractResponse(p)
        \/ ExtractFails(p)
        \/ PaySettles(p)
        \/ PayReturnsToLinks(p)
        \/ PayReturnsToExtractTop(p)
        \/ PayReturnsToExtractItem(p)

SpecConc == InitConc /\ [][NextConc]_vars

(***************************************************************************)
(* Reading an invocation's history.                                        *)
(***************************************************************************)
Where(h, e, k) == {i \in 1..Len(h) : h[i].e = e /\ h[i].k = k}
N(h, e, k) == Cardinality(Where(h, e, k))
Vals(h, e, k) ==
    LET q == SelectSeq(h, LAMBDA x : x.e = e /\ x.k = k)
    IN  [i \in 1..Len(q) |-> q[i].v]
Range(f) == {f[i] : i \in DOMAIN f}

\* The PaymentChallenge shape, stated on the structure of the value: an
\* object with a truthy x402Version field and a truthy accepts field.
HasTruthy(v, k) == v.t = "obj" /\ k \in DOMAIN v.f /\ Truthy(v.f[k])
IsChallengeShaped(v) == HasTruthy(v, "x402Version") /\ HasTruthy(v, "accepts")

LinksCall(p) == st[p].fn = "getLinks"
ExtractCall(p) == st[p].fn = "extractText"
PaidOk(h) == Ev("ret", "pay", Bool(TRUE)) \in Range(h)
PaidFailed(h) == Ev("ret", "pay", Bool(FALSE)) \in Range(h)

(***************************************************************************)
(* C1: a getLinks(url) call with retry allowed issues at most two          *)
(* link-discovery requests and at most one payment request, whatever the   *)
(* link endpoint and the payment service answer.                           *)
(***************************************************************************)
C1_LinksRetryCap ==
    \A p \in Procs :
        LinksCall(p) /\ st[p].retry0 =>
            /\ N(st[p].hist, "req", "links") <= 2
            /\ N(st[p].hist, "req", "pay") <= 1

\* both link requests were answered with a challenge; one payment was made
C1_Witness ==
    \E p \in Procs :
        /\ LinksCall(p) /\ st[p].retry0 /\ st[p].pc = "returned"
        /\ N(st[p].hist, "req", "links") = 2
        /\ N(st[p].hist, "req", "pay") = 1
        /\ \A v \in Range(Vals(st[p].hist, "resp", "links")) : IsChallengeShaped(v)

(***************************************************************************)
(* C3: getLinks with retry allowed, first response a challenge, payment    *)
(* succeeded: pay was invoked exactly once, exactly one further link       *)
(* request follows, and the call returns the second response unchanged.    *)
(***************************************************************************)
C3_LinksPaidRetry ==
    \A p \in Procs :
        LET h == st[p].hist
            resp == Vals(h, "resp", "links")
        IN  ( /\ LinksCall(p) /\ st[p].retry0
              /\ Len(resp) >= 1 /\ IsChallengeShaped(resp[1])
              /\ PaidOk(h) ) =>
                /\ N(h, "call", "pay") = 1
                /\ N(h, "req", "pay") = 1
                /\ st[p].pc = "pay_ret" \/ N(h, "req", "links") = 2
                /\ N(h, "req", "links") <= 2
                /\ Len(resp) = 2 => st[p].pc = "returned" /\ st[p].result = resp[2]
                /\ st[p].pc = "returned" => Len(resp) = 2

\* paid, retried, and the second answer (a plain body) came back as the result
C3_Witness ==
    \E p \in Procs :
        LET resp == Vals(st[p].hist, "resp", "links")
        IN  /\ LinksCall(p) /\ st[p].retry0 /\ PaidOk(st[p].hist)
            /\ Len(resp) = 2 /\ IsChallengeShaped(resp[1])
            /\ st[p].pc = "returned"
            /\ st[p].result = Obj([links |-> Arr(<<Str("https://a.example/x")>>)])

(***************************************************************************)
(* C4: getLinks got a challenge and either the payment failed or retry     *)
(* was not allowed (then pay is not invoked): the call returns that same   *)
(* challenge, and no further link request is issued; the only requests     *)
(* are the first link request and at most the one payment request.         *)
(***************************************************************************)
C4_LinksChallengeKept ==
    \A p \in Procs :
        LET h == st[p].hist
            resp == Vals(h, "resp", "links")
        IN  LinksCall(p) /\ Len(resp) >= 1 /\ IsChallengeShaped(resp[1]) =>
                /\ ~st[p].retry0 =>
                      /\ st[p].pc = "returned" /\ st[p].result = resp[1]
                      /\ N(h, "call", "pay") = 0 /\ N(h, "req", "pay") = 0
                      /\ N(h, "req", "links") = 1
                /\ st[p].retry0 /\ PaidFailed(h) =>
                      /\ st[p].pc \in {"pay_ret", "returned"}
                      /\ st[p].pc = "returned" => st[p].result = resp[1]
                      /\ N(h, "call", "pay") = 1 /\ N(h, "req", "pay") <= 1
                      /\ N(h, "req", "links") = 1
                /\ Len(resp) = 2 /\ IsChallengeShaped(resp[2]) =>
                      /\ st[p].pc = "returned" /\ st[p].result = resp[2]
                      /\ N(h, "call", "pay") = 1
                      /\ N(h, "req", "links") = 2

\* the payment request was sent and did not succeed; the challenge came back
C4_Witness ==
    \E p \in Procs :
        LET h == st[p].hist
            resp == Vals(h, "resp", "links")
        IN  /\ LinksCall(p) /\ st[p].retry0 /\ st[p].pc = "returned"
            /\ Len(resp) = 1 /\ IsChallengeShaped(resp[1])
            /\ N(h, "req", "pay") = 1 /\ PaidFailed(h)
            /\ st[p].result = resp[1]

HasResultsSeq(v) == v.t = "obj" /\ "results" \in DOMAIN v.f /\ v.f.results.t = "arr"
ChallengeItems(v) ==
    IF HasResultsSeq(v) THEN SelectSeq(v.f.results.a, IsChallengeShaped) ELSE <<>>
IsPrefix(a, b) == Len(a) <= Len(b) /\ \A i \in 1..Len(a) : a[i] = b[i]
Last(h) == h[Len(h)]
MaxOf(S) == CHOOSE j \in S : \A k \in S : k <= j

(***************************************************************************)
(* C2: an extractText(urls, domain) call with retry allowed issues at most *)
(* two extraction requests; after the second request no payment is         *)
(* attempted and the second response is returned verbatim, whatever it is. *)
(***************************************************************************)
C2_ExtractRetryCapVerbatim ==
    \A p \in Procs :
        LET h == st[p].hist
            reqs == Where(h, "req", "extract")
            resp == Vals(h, "resp", "extract")
        IN  ExtractCall(p) /\ st[p].retry0 =>
                /\ Cardinality(reqs) <= 2
                /\ Cardinality(reqs) = 2 =>
                      \A i \in Where(h, "call", "pay") : i < MaxOf(reqs)
                /\ Len(resp) = 2 => st[p].pc = "returned" /\ st[p].result = resp[2]

(***************************************************************************)
(* C5: first extractText response not a top-level challenge, with a        *)
(* results array, retry allowed: pay is invoked exactly once for each      *)
(* challenge-shaped item, in order, and for nothing else, whatever the     *)
(* outcome of the earlier payments.                                        *)
(***************************************************************************)
C5_PayEachChallengeItem ==
    \A p \in Procs :
        LET h == st[p].hist
            resp == Vals(h, "resp", "extract")
            calls == Vals(h, "call", "pay")
        IN  ( /\ ExtractCall(p) /\ st[p].retry0
              /\ Len(resp) >= 1 /\ ~IsChallengeShaped(resp[1])
              /\ HasResultsSeq(resp[1]) ) =>
                /\ IsPrefix(calls, ChallengeItems(resp[1]))
                /\ st[p].pc \notin {"pay_fetch", "pay_ret"} =>
                      calls = ChallengeItems(resp[1])

(***************************************************************************)
(* C6: first extractText response not a top-level challenge, retry         *)
(* allowed: a second extraction request is issued iff some item of         *)
(* results is challenge-shaped (whatever the payments' outcomes); with no  *)
(* such item the first response is returned unchanged and pay is not       *)
(* invoked.                                                                *)
(***************************************************************************)
C6_RetryIffChallengeItem ==
    \A p \in Procs :
        LET h == st[p].hist
            resp == Vals(h, "resp", "extract")
        IN  ( /\ ExtractCall(p) /\ st[p].retry0
              /\ Len(resp) >= 1 /\ ~IsChallengeShaped(resp[1]) ) =>
                /\ ChallengeItems(resp[1]) = <<>> =>
                      /\ st[p].pc = "returned" /\ st[p].result = resp[1]
                      /\ N(h, "call", "pay") = 0
                      /\ N(h, "req", "extract") = 1
                /\ ChallengeItems(resp[1]) # <<>> =>
                      st[p].pc \in {"pay_fetch", "pay_ret"} \/ N(h, "req", "extract") = 2

(***************************************************************************)
(* C7: an extractText response that is a top-level challenge, with the     *)
(* payment failed or retry not allowed, is returned unchanged: no further  *)
(* extraction request, and pay is invoked for no item of it, also when     *)
(* the challenge carries a results field.                                  *)
(***************************************************************************)
C7_TopChallengeTerminal ==
    \A p \in Procs :
        LET h == st[p].hist
            resp == Vals(h, "resp", "extract")
            calls == Vals(h, "call", "pay")
        IN  ExtractCall(p) =>
                /\ Len(resp) >= 1 /\ IsChallengeShaped(resp[1]) /\ ~st[p].retry0 =>
                      /\ st[p].pc = "returned" /\ st[p].result = resp[1]
                      /\ calls = <<>>
                      /\ N(h, "req", "extract") = 1
                /\ Len(resp) >= 1 /\ IsChallengeShaped(resp[1]) /\ PaidFailed(h) =>
                      /\ st[p].pc \in {"pay_ret", "returned"}
                      /\ st[p].pc = "returned" => st[p].result = resp[1]
                      /\ calls = <<resp[1]>>
                      /\ N(h, "req", "extract") = 1
                /\ Len(resp) = 2 /\ IsChallengeShaped(resp[2]) =>
                      /\ st[p].pc = "returned" /\ st[p].result = resp[2]
                      /\ Last(h) = Ev("resp", "extract", resp[2])
                      /\ N(h, "req", "extract") = 2

\* a challenge carrying results, its payment failed: returned as it came
C7_Witness ==
    \E p \in Procs :
        LET h == st[p].hist
            resp == Vals(h, "resp", "extract")
        IN  /\ ExtractCall(p) /\ st[p].retry0 /\ st[p].pc = "returned"
            /\ resp = <<ChWithResults>>
            /\ N(h, "req", "pay") = 1 /\ PaidFailed(h)
            /\ st[p].result = ChWithResults

(***************************************************************************)
(* C8: pay never raises to its caller.  Its result is true exactly when    *)
(* the payment request completed with a success status, false for another  *)
(* status and for a transport failure; an invocation never fails on a      *)
(* payment event.                                                          *)
(***************************************************************************)
C8_PayNeverThrows ==
    \A p \in Procs :
        LET h == st[p].hist
        IN  /\ \A i \in Where(h, "resp", "pay") \cup Where(h, "fail", "pay") :
                  /\ i < Len(h)
                  /\ h[i + 1] = Ev("ret", "pay", Bool(h[i] = Ev("resp", "pay", Bool(TRUE))))
            /\ \A i \in Where(h, "ret", "pay") :
                  h[i].v = Bool(TRUE) => i > 1 /\ h[i - 1] = Ev("resp", "pay", Bool(TRUE))
            /\ st[p].pc = "threw" => Last(h).k # "pay"

(***************************************************************************)
(* C9: a challenge with no first accepted option, or whose first option    *)
(* has no resource or an empty one (accepts: [] included): pay returns     *)
(* false and issues no payment request.                                    *)
(***************************************************************************)
FirstOption(x) ==
    IF x.t = "obj" /\ "accepts" \in DOMAIN x.f /\ x.f.accepts.t = "arr"
          /\ Len(x.f.accepts.a) >= 1
    THEN x.f.accepts.a[1]
    ELSE Undefined
ResourceMissing(x) ==
    LET o == FirstOption(x)
    IN  \/ o.t # "obj"
        \/ "resource" \notin DOMAIN o.f
        \/ o.f.resource \in {Str(""), Null}

C9_NoResourceNoRequest ==
    \A p \in Procs :
        LET h == st[p].hist
        IN  \A i \in Where(h, "call", "pay") :
                ResourceMissing(h[i].v) =>
                    i < Len(h) /\ h[i + 1] = Ev("ret", "pay", Bool(FALSE))

\* pay was invoked on {x402Version: 1, accepts: []} and no request went out
C9_Witness ==
    \E p \in Procs :
        LET h == st[p].hist
        IN  /\ Vals(h, "call", "pay") = <<ChEmptyAccepts>>
            /\ N(h, "req", "pay") = 0
            /\ Vals(h, "ret", "pay") = <<Bool(FALSE)>>
            /\ st[p].pc = "returned" /\ st[p].result = ChEmptyAccepts

(***************************************************************************)
(* C10: isX402(value) is truthy iff value is an object with a truthy       *)
(* x402Version field and a truthy accepts field, and falsy (no exception)  *)
(* for every other value: null, non-objects, objects missing a field.      *)
(* Checked on every response body and every results item received, and on  *)
(* the branch getLinks takes on it.                                        *)
(***************************************************************************)
Received(h) ==
    LET bodies == Range(Vals(h, "resp", "links")) \cup Range(Vals(h, "resp", "extract"))
    IN  bodies \cup UNION {IF HasResultsSeq(b) THEN Range(b.f.results.a) ELSE {} : b \in bodies}

C10_IsX402Shape ==
    \A p \in Procs :
        LET h == st[p].hist
            resp == Vals(h, "resp", "links")
        IN  /\ \A v \in Received(h) : Truthy(isX402(v)) <=> IsChallengeShaped(v)
            /\ LinksCall(p) /\ st[p].retry0 /\ Len(resp) >= 1 =>
                  (N(h, "call", "pay") = 1 <=> IsChallengeShaped(resp[1]))

\* {x402Version: 1} without accepts came back from /links and was not taken
\* for a challenge
C10_Witness ==
    \E p \in Procs :
        LET h == st[p].hist
        IN  /\ LinksCall(p) /\ st[p].retry0 /\ st[p].pc = "returned"
            /\ Vals(h, "resp", "links") = <<Obj([x402Version |-> Num(1)])>>
            /\ N(h, "call", "pay") = 0
            /\ st[p].result = Obj([x402Version |-> Num(1)])

(***************************************************************************)
(* C11  filterUrls(links, domain) is exactly the subsequence of links, in  *)
(* input order and with duplicates kept, of the links that parse as URLs   *)
(* and whose host, with a leading "www." stripped, contains none of the    *)
(* seven social hostnames and contains the domain, with only a leading     *)
(* "www." stripped.  Stated on what the extract_text tool computes from    *)
(* its urls and domain arguments.                                          *)
(***************************************************************************)
StripLeadingWww(s) ==
    IF StartsWith(s, Chars("www.")) THEN SubSeq(s, Len(Chars("www.")) + 1, Len(s)) ELSE s

LeadingKeep(link, domain) ==
    /\ link.t = "str" /\ domain.t = "str"
    /\ Hostname(Chars(link.s)) # <<>>
    /\ LET host == StripLeadingWww(Hostname(Chars(link.s)))
       IN  /\ ~\E i \in 1..Len(socials) : Includes(host, socials[i])
           /\ Includes(host, StripLeadingWww(Chars(domain.s)))

C11_FilterUrlsLeadingWww ==
    \A p \in Procs :
        st[p].tool = "extract_text" =>
            st[p].filtered =
                Arr(SelectSeq(st[p].args.f.urls.a,
                              LAMBDA link : LeadingKeep(link, st[p].args.f.domain)))

ScrapeCall(p) == st[p].tool = "scrape_website"
\* the handler's `links` is bound once the awaited getLinks has returned
LinksKnown(p) == st[p].links # Undefined
ErrorResult(x402) ==
    Content("json", Obj([error |-> Str("Payment failed for links"), x402 |-> x402]))

(***************************************************************************)
(* C12: in scrape_website, when the value getLinks returns (its last       *)
(* response) is challenge-shaped, the tool returns the error result with   *)
(* "Payment failed for links" and that challenge, and the invocation       *)
(* issues no extraction request.                                           *)
(***************************************************************************)
C12_ScrapeLinksChallenge ==
    \A p \in Procs :
        LET h == st[p].hist
        IN  ScrapeCall(p) /\ LinksKnown(p) /\ IsChallengeShaped(st[p].links) =>
                /\ st[p].links = Last(Vals(h, "resp", "links"))
                /\ st[p].pc = "done"
                /\ st[p].out = ErrorResult(st[p].links)
                /\ N(h, "req", "extract") = 0

\* the challenge that came back after a paid replay carries links of the
\* domain, and still only the error result is returned
C12_Witness ==
    \E p \in Procs :
        /\ ScrapeCall(p) /\ st[p].pc = "done"
        /\ st[p].links = ChWithLinks
        /\ PaidOk(st[p].hist)
        /\ N(st[p].hist, "req", "links") = 2

\* the links sequence of a link result; none when the field is missing or
\* is no sequence
LinksSeq(v) ==
    IF v.t = "obj" /\ "links" \in DOMAIN v.f /\ v.f.links.t = "arr"
    THEN v.f.links
    ELSE Arr(<<>>)
NoLinksResult(v) ==
    Content("json",
            IF v.t = "obj" /\ "links" \in DOMAIN v.f
            THEN Obj([links |-> v.f.links, filtered |-> Arr(<<>>),
                      message |-> Str("No internal links found")])
            ELSE Obj([filtered |-> Arr(<<>>),
                      message |-> Str("No internal links found")]))

(***************************************************************************)
(* C13: in scrape_website, when the link result is no challenge and the    *)
(* domain filter leaves no link of it (also when the result has no links   *)
(* sequence), the tool returns filtered = [], the message "No internal     *)
(* links found" and the links as discovered; the invocation issues no      *)
(* extraction request and starts no payment after the link result.         *)
(***************************************************************************)
C13_ScrapeNoInternalLinks ==
    \A p \in Procs :
        LET h == st[p].hist
            v == st[p].links
        IN  /\ ScrapeCall(p) /\ LinksKnown(p) /\ ~IsChallengeShaped(v)
            /\ filterUrls(LinksSeq(v), st[p].domain).a = <<>>
            => /\ st[p].pc = "done"
               /\ st[p].out = NoLinksResult(v)
               /\ N(h, "req", "extract") = 0
               /\ \A i \in Where(h, "call", "pay") :
                      i < MaxOf(Where(h, "resp", "links"))

\* the domain scrape_website derives from its url argument
DerivedDomain(p) == Str(Text(ReplaceWww(Hostname(Chars(st[p].args.f.url.s)))))

(***************************************************************************)
(* C14: in scrape_website every extraction request comes after every      *)
(* link-discovery request and response, and its URL list is exactly the    *)
(* domain filter's output over the discovered links, with the domain       *)
(* derived from url; when the tool returns after extraction, its result    *)
(* has filtered equal to that list and extracted equal to what the         *)
(* extractor returned (its last response), challenge or not.               *)
(***************************************************************************)
C14_ScrapeExtractsFiltered ==
    \A p \in Procs :
        LET h == st[p].hist
            reqs == Where(h, "req", "extract")
            urls == filterUrls(LinksSeq(st[p].links), DerivedDomain(p))
        IN  ScrapeCall(p) /\ reqs # {} =>
                /\ LinksKnown(p)
                /\ \A i \in reqs :
                      /\ \A j \in Where(h, "req", "links") \cup Where(h, "resp", "links") : j < i
                      /\ h[i].v = Obj([urls |-> urls, domain |-> DerivedDomain(p)])
                /\ st[p].pc = "done" =>
                      st[p].out =
                          Content("json",
                                  Obj([links |-> st[p].links, filtered |-> urls,
                                       extracted |-> Last(Vals(h, "resp", "extract"))]))

\* two links came back, the filter dropped one of them, and the extraction
\* that is returned is still a challenge
C14_Witness ==
    \E p \in Procs :
        /\ ScrapeCall(p) /\ st[p].pc = "done"
        /\ Len(LinksSeq(st[p].links).a) = 2
        /\ Len(st[p].filtered.a) = 1
        /\ N(st[p].hist, "req", "extract") >= 1
        /\ IsChallengeShaped(Last(Vals(st[p].hist, "resp", "extract")))

ExtractTool(p) == st[p].tool = "extract_text"

(***************************************************************************)
(* C17: the extract_text tool puts into its extraction requests only the   *)
(* urls of its argument that pass the domain filter for its domain         *)
(* argument; when none passes it has returned at once, with no extraction  *)
(* and no payment request.                                                 *)
(***************************************************************************)
C17_ExtractToolFilters ==
    \A p \in Procs :
        LET h == st[p].hist
            passed == filterUrls(st[p].args.f.urls, st[p].args.f.domain)
        IN  ExtractTool(p) =>
                /\ \A i \in Where(h, "req", "extract") :
                      h[i].v.f.urls = passed /\ passed.a # <<>>
                /\ passed.a = <<>> =>
                      /\ st[p].pc = "done"
                      /\ h = <<>>
                      /\ st[p].out = Content("plain", Str("No URLs matched domain filter"))

\* of two urls one is of another site: the request carries the other alone
C17_Witness ==
    \E p \in Procs :
        /\ ExtractTool(p)
        /\ st[p].args.f.urls = Arr(<<Str("https://github.com/x"), Str("https://a.example/x")>>)
        /\ N(st[p].hist, "req", "extract") = 2
        /\ st[p].hist[1].v.f.urls = Arr(<<Str("https://a.example/x")>>)

(***************************************************************************)
(* C15: when a link-discovery or extraction request, first or replayed,    *)
(* fails in transport or in parsing, the getLinks / extractText call       *)
(* fails: it returns no value, and the failure is the last thing the       *)
(* invocation did (no payment call, no request after it).                  *)
(***************************************************************************)
C15_FetchFailurePropagates ==
    \A p \in Procs :
        LET h == st[p].hist
        IN  \A i \in Where(h, "fail", "links") \cup Where(h, "fail", "extract") :
                /\ i = Len(h)
                /\ h[i - 1].e = "req" /\ h[i - 1].k = h[i].k
                /\ st[p].pc = "threw"
                /\ st[p].result = Undefined

\* the replay that followed a successful payment failed
C15_Witness ==
    \E p \in Procs :
        /\ ExtractCall(p) /\ st[p].pc = "threw"
        /\ Last(st[p].hist).e = "fail"
        /\ N(st[p].hist, "req", "extract") = 2
        /\ PaidOk(st[p].hist)

(***************************************************************************)
(* C18: all link-discovery requests of a getLinks call carry the same url  *)
(* and all extraction requests of an extractText call carry the same urls  *)
(* sequence and the same domain: a replay repeats the original request,    *)
(* whichever items were challenged or paid.                                *)
(***************************************************************************)
C18_ReplayIdentical ==
    \A p \in Procs :
        LET h == st[p].hist
        IN  /\ \A i, j \in Where(h, "req", "links") : h[i].v = h[j].v
            /\ \A i, j \in Where(h, "req", "extract") : h[i].v = h[j].v

\* two urls were asked for, one of the two items came back challenged and
\* was paid (the payment failed), and the request was sent again
C18_Witness ==
    \E p \in Procs :
        LET h == st[p].hist
        IN  /\ ExtractCall(p)
            /\ N(h, "req", "extract") = 2
            /\ Len(h[1].v.f.urls.a) = 2
            /\ Len(ChallengeItems(h[2].v)) = 1
            /\ Len(h[2].v.f.results.a) = 2
            /\ PaidFailed(h)

\* the resource of the first accepted option of a challenge
ResourceOf(x) ==
    LET o == FirstOption(x)
    IN  IF o.t = "obj" /\ "resource" \in DOMAIN o.f THEN o.f.resource ELSE Undefined
Prefix(h, i) == SubSeq(h, 1, i - 1)

(***************************************************************************)
(* C19: no payment request is spontaneous.  Before every payment request   *)
(* of an invocation a challenge-shaped value was received by that          *)
(* invocation, as a response or as an item of a response's results, and    *)
(* the request's url is the resource of that challenge's first accepted    *)
(* option; once the call has sent its replay, no payment request follows.  *)
(***************************************************************************)
C19_NoSpontaneousPayment ==
    \A p \in Procs :
        LET h == st[p].hist
            reqs == Where(h, "req", "links") \cup Where(h, "req", "extract")
        IN  \A i \in Where(h, "req", "pay") :
                /\ \E x \in Received(Prefix(h, i)) :
                      /\ IsChallengeShaped(x)
                      /\ ResourceOf(x) # Undefined
                      /\ h[i].v = Obj([url |-> ResourceOf(x)])
                /\ Cardinality(reqs) >= 2 => i < MaxOf(reqs)

\* both challenged items of one response were paid, r1 then r2, and the
\* replay has been sent after them
C19_Witness ==
    \E p \in Procs :
        LET h == st[p].hist
            pays == Vals(h, "req", "pay")
        IN  /\ ExtractCall(p)
            /\ pays = <<Obj([url |-> Str("r1")]), Obj([url |-> Str("r2")])>>
            /\ N(h, "req", "extract") = 2

\* what an invocation was called with, what came back to it, and where it is
Own(s) == <<s.fn, s.retry0, s.hist, s.pc>>
PayDecided(s) == s.pc \notin {"pay_fetch", "pay_ret"}

(***************************************************************************)
(* C16: with invocations running concurrently and their suspension points  *)
(* interleaved in any order, an invocation's state and result are a        *)
(* function of its own call and the responses to its own requests; the     *)
(* one-retry cap holds for each invocation; an invocation pays exactly     *)
(* when its own first response was challenged and replays exactly when     *)
(* its own payment succeeded, whatever the others paid or replayed; and a  *)
(* step of one invocation leaves every other invocation as it was.         *)
(***************************************************************************)
C16_PerInvocation ==
    \A p \in Procs :
        LET h == st[p].hist
            links == Vals(h, "resp", "links")
        IN  /\ \A q \in Procs : Own(st[p]) = Own(st[q]) => st[p] = st[q]
            /\ N(h, "req", "links") <= 2
            /\ N(h, "req", "extract") <= 2
            /\ LinksCall(p) => N(h, "req", "pay") <= 1
            /\ ~st[p].retry0 => N(h, "req", "pay") = 0 /\ N(h, "req", "links") + N(h, "req", "extract") <= 1
            /\ LinksCall(p) /\ st[p].retry0 /\ Len(links) >= 1 =>
                  /\ N(h, "call", "pay") = 1 <=> IsChallengeShaped(links[1])
                  /\ PayDecided(st[p]) => (N(h, "req", "links") = 2 <=> PaidOk(h))

C16_Independent ==
    [](C16_PerInvocation)
        /\ [][\A p, q \in Procs : p # q /\ st'[p] # st[p] => st'[q] = st[q]]_vars

\* p1's paid replay is in flight while p2's payment of its own challenge
\* is still pending
C16_Witness ==
    /\ LinksCall("p1") /\ st["p1"].pc = "links_fetch"
    /\ N(st["p1"].hist, "req", "links") = 2
    /\ LinksCall("p2") /\ st["p2"].pc = "pay_fetch"

Started(p) == st[p].pc # "idle"
Completed(p) == st[p].pc \in {"done", "threw"}
FirstOf(S) == CHOOSE j \in S : \A k \in S : j <= k
\* challenges found in the first extraction response: the response itself,
\* or the challenged items of its results
FoundInFirst(h) ==
    LET resp == Vals(h, "resp", "extract")
    IN  IF Len(resp) = 0 THEN 0
        ELSE IF IsChallengeShaped(resp[1]) THEN 1
        ELSE Len(ChallengeItems(resp[1]))
ExtractBounded(p) ==
    LET h == st[p].hist
        reqs == Where(h, "req", "extract")
    IN  reqs # {} =>
            /\ Cardinality(reqs) <= 2
            /\ Cardinality({i \in Where(h, "req", "pay") : i > FirstOf(reqs)}) <= FoundInFirst(h)

(***************************************************************************)
(* C20: when every request that was issued settles, every get_links,       *)
(* extract_text and scrape_website invocation that was started ends, with  *)
(* a result or with a failure, whatever the backend answers; and an        *)
(* extractText call issues at most two extraction requests and at most     *)
(* one payment request for each challenge found in its first response.     *)
(***************************************************************************)
C20_Terminates ==
    /\ [](\A p \in Procs : ExtractBounded(p))
    /\ \A p \in Procs : Started(p) ~> Completed(p)

\* a scrape that used everything it may: payment and replay for the links,
\* two payments and the replay for the extraction
C20_Witness ==
    \E p \in Procs :
        /\ ScrapeCall(p) /\ st[p].pc = "done"
        /\ N(st[p].hist, "req", "links") = 2
        /\ N(st[p].hist, "req", "extract") = 2
        /\ N(st[p].hist, "req", "pay") = 3

====
